---------------------------- MODULE Spec2Model ----------------------------
(***************************************************************************)
(* Human-in-the-loop suspension of the SDR website-creation pipeline.      *)
(*                                                                         *)
(*   agent side : HumanInteractionManager (the registry), human_creation   *)
(*                with send_ui_notification and wait_for_human_response,   *)
(*                submit_human_response / cancel_human_request and the     *)
(*                /api/human-input/{request_id} route of the SDR service   *)
(*   UI side    : receive_human_input_request, submit_human_input_response *)
(*                and ConnectionManager of ui_client/main.py               *)
(*                                                                         *)
(* Both services run one asyncio event loop each: a handler runs without   *)
(* interruption from one await to the next, so every action below is the   *)
(* code between two awaits of one coroutine.                               *)
(***************************************************************************)
EXTENDS Integers, Sequences, FiniteSets, TLC

\* ---------------------------------------------------------------- bounds
NumIds == 2         \* values str(uuid.uuid4())[:8] can take
Timeout == 1        \* wait_for_human_response(timeout=...), in sleep ticks
MaxLag == 2         \* longest time one asyncio.sleep(1) may take, in ticks

Ids == 1..NumIds
Tasks == {1, 2}     \* concurrent invocations of human_creation
Handlers == {1, 2}  \* requests served by POST {ui}/api/human-input/{id}
Conns == {1, 2}        \* WebSocket connections of the dashboard

\* The urls a human may type: handler h submits its own preview url, or an
\* empty string.
EmptyUrl == ""
UrlOf(h) == IF h = 1 THEN "https://preview.example/x" ELSE "https://preview.example/y"

\* Python's None where a string is expected, and the id of a coroutine that
\* has not called create_request yet.
None == "None"
NoId == 0

\* RequestStatus
PENDING == "pending"
COMPLETED == "completed"
CANCELLED == "cancelled"

\* The strings human_creation returns when it has no url.
ErrNotify == "Error: Failed to notify UI. Please ensure the UI service is running."
ErrNoResponse == "Error: Human response not received within timeout period."

VARIABLES
    registry,            \* HumanInteractionManager._pending_requests
    pc,                  \* where each human_creation coroutine stands
    rid,                 \* its request_id
    elapsed,             \* current_time - start_time at its last poll
    branch,              \* the return statement wait_for_human_response took
    result,              \* what human_creation returned
    ui_requests,         \* app_state["human_input_requests"]
    active_connections,  \* ConnectionManager.active_connections
    received,            \* the messages each WebSocket client was sent
    handler,             \* the submit_human_input_response requests
    awaiting_auth,       \* SDRAgentExecutor._awaiting_auth
    attempt,             \* the executions that asked for authorization
    authcb,              \* the requests to GET {agent}/authenticate
    credentials,         \* SDRAgentExecutor._credentials
    businesses,          \* app_state["businesses"]
    agent_updates,       \* app_state["agent_updates"]
    clock,               \* the wall clock datetime.now() reads
    request,             \* the requests to POST {ui}/agent_callback
    is_running,          \* app_state["is_running"]
    process              \* the run_lead_finding_process tasks

agentVars == <<registry, pc, rid, elapsed, branch, result>>
uiVars == <<ui_requests, active_connections, received, handler>>
oauthVars == <<awaiting_auth, attempt, authcb, credentials>>
storeVars == <<businesses, agent_updates, clock, request, is_running, process>>
vars == <<registry, pc, rid, elapsed, branch, result,
          ui_requests, active_connections, received, handler,
          awaiting_auth, attempt, authcb, credentials,
          businesses, agent_updates, clock, request, is_running, process>>

\* ------------------------------------------------ HumanInteractionManager
\* HumanRequest(request_id, prompt): status PENDING, url_response None.
HumanRequest(id, prompt) ==
    [request_id |-> id, prompt |-> prompt, status |-> PENDING, url_response |-> None]

\* self._pending_requests[request_id] = request
\* create_request that returns the id without storing the request.
create_request_NotStored(reg, id, prompt) == reg

create_request(reg, id, prompt) ==
    [i \in (DOMAIN reg) \cup {id} |-> IF i = id THEN HumanRequest(id, prompt) ELSE reg[i]]

\* get_request(id) is None exactly when id is no key of the dict; otherwise
\* it is reg[id].
has_request(reg, id) == id \in DOMAIN reg

update_request(reg, id, url) ==
    IF id \in DOMAIN reg
    THEN [reg EXCEPT ![id].status = COMPLETED, ![id].url_response = url]
    ELSE reg

\* cancel_request that drops the entry instead of marking it.
cancel_request_Deletes(reg, id) ==
    IF id \in DOMAIN reg THEN [i \in (DOMAIN reg) \ {id} |-> reg[i]] ELSE reg

cancel_request(reg, id) ==
    IF id \in DOMAIN reg THEN [reg EXCEPT ![id].status = CANCELLED] ELSE reg

\* cleanup_request that clears the whole dict.
cleanup_request_ClearsAll(reg, id) == <<>>

cleanup_request(reg, id) ==
    IF id \in DOMAIN reg THEN [i \in (DOMAIN reg) \ {id} |-> reg[i]] ELSE reg

\* get_pending_requests(): the ids listed for UI display.
get_pending_requests(reg) == {i \in DOMAIN reg : reg[i].status = PENDING}

\* The guard without its status test: any registered request passes.
IsPending_AnyStatus(reg, id) == has_request(reg, id)

\* `if request and request.status == RequestStatus.PENDING`
IsPending(reg, id) ==
    /\ has_request(reg, id)
    /\ reg[id].status = PENDING

\* submit_human_response(request_id, url): the value it returns ...
submit_human_response_returns(reg, id, url) == IsPending(reg, id)

\* ... and the registry it leaves.
submit_human_response(reg, id, url) ==
    IF IsPending(reg, id) THEN update_request(reg, id, url) ELSE reg

cancel_human_request_returns(reg, id) == IsPending(reg, id)

\* cancel_human_request without its guard.
cancel_human_request_Unguarded(reg, id) == cancel_request(reg, id)

cancel_human_request(reg, id) ==
    IF IsPending(reg, id) THEN cancel_request(reg, id) ELSE reg

\* The SDR route POST /api/human-input/{request_id}: `url` is what
\* data.get('url') or data.get('response') evaluates to.
human_input_callback_status(reg, id, url) ==
    IF url = EmptyUrl THEN 400
    ELSE IF submit_human_response_returns(reg, id, url) THEN 200
    ELSE 404

\* The route without its `not url` test.
human_input_callback_AcceptsEmpty(reg, id, url) == submit_human_response(reg, id, url)

human_input_callback(reg, id, url) ==
    IF url = EmptyUrl THEN reg ELSE submit_human_response(reg, id, url)

\* ------------------------------------------------------ ConnectionManager
\* The messages of the live stream this model follows.
Msg(type, id) == [type |-> type, request_id |-> id]

\* send_update(data): nothing happens without connections; otherwise every
\* connection is sent the message, and those whose send_text raises (all
\* but `ok`) are collected and disconnected after the pass.
\* This is the pass taken as a whole, with nothing running during its
\* awaits; SendText below follows a pass send by send.
send_update_received(conns, rec, msg, ok) ==
    [c \in DOMAIN rec |-> IF c \in conns \cap ok THEN Append(rec[c], msg) ELSE rec[c]]

send_update_connections(conns, ok) == conns \cap ok

SendUpdate(msg, ok) ==
    /\ received' = send_update_received(active_connections, received, msg, ok)
    /\ active_connections' = send_update_connections(active_connections, ok)

\* websocket_endpoint: accept, register, send the initial_state snapshot.
WsConnect(c) ==
    /\ c \notin active_connections
    /\ received[c] = <<>>
    /\ active_connections' = active_connections \cup {c}
    /\ received' = [received EXCEPT ![c] = <<Msg("initial_state", NoId)>>]
    /\ UNCHANGED <<agentVars, ui_requests, handler>>
    /\ UNCHANGED <<oauthVars, storeVars>>

\* WebSocketDisconnect: manager.disconnect(websocket).
WsDisconnect(c) ==
    /\ c \in active_connections
    /\ active_connections' = active_connections \ {c}
    /\ UNCHANGED <<agentVars, ui_requests, received, handler>>
    /\ UNCHANGED <<oauthVars, storeVars>>

\* ------------------------------------------------------- human_creation
\* request_id = manager.create_request(prompt), up to the await of
\* send_ui_notification.  str(uuid.uuid4())[:8] is any value of Ids; the
\* prompt of coroutine t is t.
HumanCreationStart(t, id) ==
    /\ pc[t] = "idle"
    /\ registry' = create_request(registry, id, t)
    /\ rid' = [rid EXCEPT ![t] = id]
    /\ pc' = [pc EXCEPT ![t] = "notify"]
    /\ UNCHANGED <<elapsed, branch, result, uiVars>>
    /\ UNCHANGED <<oauthVars, storeVars>>

\* The UI serves POST /api/human-input (receive_human_input_request): store
\* the request, broadcast human_input_request.
ReceiveHumanInputRequest(t, ok) ==
    /\ pc[t] = "notify"
    /\ ui_requests' = [i \in (DOMAIN ui_requests) \cup {rid[t]} |->
                          IF i = rid[t] THEN t ELSE ui_requests[i]]
    /\ SendUpdate(Msg("human_input_request", rid[t]), ok)
    /\ pc' = [pc EXCEPT ![t] = "notified"]
    /\ UNCHANGED <<registry, rid, elapsed, branch, result, handler>>
    /\ UNCHANGED <<oauthVars, storeVars>>

\* One pass of the loop of wait_for_human_response at time e after
\* start_time: the return it takes, or "sleep".
WaitBranch(reg, id, e) ==
    IF ~has_request(reg, id) THEN "not_found"
    ELSE IF reg[id].status = COMPLETED THEN "completed"
    ELSE IF reg[id].status = CANCELLED THEN "cancelled"
    ELSE IF e > Timeout THEN "timed_out"
    ELSE "sleep"

\* What wait_for_human_response returns on that branch.
WaitReturns(reg, id, b) == IF b = "completed" THEN reg[id].url_response ELSE None

\* The registry after that pass: a timeout cancels the request.
WaitRegistry(reg, id, b) == IF b = "timed_out" THEN cancel_request(reg, id) ELSE reg

\* `if url_response:` of human_creation.
Truthy(url) == url # None /\ url # EmptyUrl

\* What human_creation returns for the value the wait returned.
HumanCreationReturns(url_response) ==
    IF Truthy(url_response) THEN url_response ELSE ErrNoResponse

\* One pass of the wait loop of coroutine t at time e, and, when the wait
\* returns, the rest of human_creation (cleanup and return).
Poll(t, e) ==
    LET b == WaitBranch(registry, rid[t], e) IN
    /\ IF b = "sleep"
       THEN /\ pc' = [pc EXCEPT ![t] = "wait"]
            /\ elapsed' = [elapsed EXCEPT ![t] = e]
            /\ UNCHANGED <<registry, branch, result>>
       ELSE /\ elapsed' = [elapsed EXCEPT ![t] = 0]
            /\ registry' = cleanup_request(WaitRegistry(registry, rid[t], b), rid[t])
            /\ branch' = [branch EXCEPT ![t] = b]
            /\ result' = [result EXCEPT ![t] =
                             HumanCreationReturns(WaitReturns(registry, rid[t], b))]
            /\ pc' = [pc EXCEPT ![t] = "done"]
    /\ UNCHANGED <<rid, uiVars>>
    /\ UNCHANGED <<oauthVars, storeVars>>

\* send_ui_notification returned True: the wait starts and makes its first
\* pass at once.
NotifyOk(t) ==
    /\ pc[t] = "notified"
    /\ Poll(t, 0)

\* The error return without its cleanup_request.
NotifyFail_NoCleanup(t) ==
    /\ pc[t] \in {"notify", "notified"}
    /\ result' = [result EXCEPT ![t] = ErrNotify]
    /\ pc' = [pc EXCEPT ![t] = "done"]
    /\ UNCHANGED <<registry, rid, elapsed, branch, uiVars>>
    /\ UNCHANGED <<oauthVars, storeVars>>

\* send_ui_notification returned False (the post raised, timed out or was
\* answered non-2xx): cleanup and the error return.
NotifyFail(t) ==
    /\ pc[t] \in {"notify", "notified"}
    /\ registry' = cleanup_request(registry, rid[t])
    /\ result' = [result EXCEPT ![t] = ErrNotify]
    /\ pc' = [pc EXCEPT ![t] = "done"]
    /\ UNCHANGED <<rid, elapsed, branch, uiVars>>
    /\ UNCHANGED <<oauthVars, storeVars>>

Min(a, b) == IF a < b THEN a ELSE b

\* asyncio.sleep(1) returned after d ticks: the next pass of the loop.
WakePoll(t, d) ==
    /\ pc[t] = "wait"
    /\ Poll(t, Min(elapsed[t] + d, Timeout + 1))

\* The task running human_creation is cancelled while it is suspended in an
\* await: asyncio.CancelledError is no Exception, `except Exception` does
\* not catch it and there is no finally.
CancelTask(t) ==
    /\ pc[t] \in {"notify", "notified", "wait"}
    /\ pc' = [pc EXCEPT ![t] = "cancelled"]
    /\ elapsed' = [elapsed EXCEPT ![t] = 0]
    /\ UNCHANGED <<registry, rid, branch, result, uiVars>>
    /\ UNCHANGED <<oauthVars, storeVars>>

\* cancel_human_request(request_id), the cancel of the external API.
CancelHumanRequest(id) ==
    /\ registry' = cancel_human_request(registry, id)
    /\ registry' # registry
    /\ UNCHANGED <<pc, rid, elapsed, branch, result, uiVars>>
    /\ UNCHANGED <<oauthVars, storeVars>>

\* ------------------------------------------- submit_human_input_response
\* A request to the endpoint: where it stands, its request_id, the url typed
\* (response.response), the status the agent answered the callback with and
\* the status the endpoint answered with; 0 stands for no status yet.  Once
\* answered, only the id and the answer remain.
IdleHandler == [pc |-> "idle", id |-> NoId, url |-> EmptyUrl, agent |-> 0, status |-> 0]

Answered(id, status) == [IdleHandler EXCEPT !.pc = "done", !.id = id, !.status = status]

\* Up to the await of the post to the agent: 404 when the UI does not know
\* the id, otherwise the callback is on its way.
UiSubmitStart(h, id, url) ==
    /\ handler[h].pc = "idle"
    /\ handler' = [handler EXCEPT ![h] =
           IF id \notin DOMAIN ui_requests
           THEN Answered(id, 404)
           ELSE [IdleHandler EXCEPT !.pc = "calling", !.id = id, !.url = url]]
    /\ UNCHANGED <<agentVars, ui_requests, active_connections, received>>
    /\ UNCHANGED <<oauthVars, storeVars>>

\* The SDR service serves the callback (human_input_callback).
HumanInputCallback(h) ==
    /\ handler[h].pc = "calling"
    /\ registry' = human_input_callback(registry, handler[h].id, handler[h].url)
    /\ handler' = [handler EXCEPT ![h].pc = "replied",
           ![h].agent = human_input_callback_status(registry, handler[h].id, handler[h].url)]
    /\ UNCHANGED <<pc, rid, elapsed, branch, result, ui_requests, active_connections, received>>
    /\ UNCHANGED <<oauthVars, storeVars>>

\* `success` after the try block: True only for a 200 that arrived.
CallbackSuccess(hd, arrived) == arrived /\ hd.pc = "replied" /\ hd.agent = 200

\* The status submit_human_input_response answers with once the callback
\* has been tried.
SubmitStatus(success) == 200

\* Whether the human_input_response_submitted update is sent.
SubmitBroadcasts(success) == TRUE

\* The post returned or raised (arrived = FALSE: connection error or the
\* 10 s timeout): pop on success, broadcast, answer.
UiSubmitFinish(h, arrived, ok) ==
    LET success == CallbackSuccess(handler[h], arrived) IN
    /\ handler[h].pc \in {"calling", "replied"}
    /\ arrived => handler[h].pc = "replied"
    /\ ui_requests' = IF success
                      THEN [i \in (DOMAIN ui_requests) \ {handler[h].id} |-> ui_requests[i]]
                      ELSE ui_requests
    /\ IF SubmitBroadcasts(success)
       THEN SendUpdate(Msg("human_input_response_submitted", handler[h].id), ok)
       ELSE UNCHANGED <<active_connections, received>>
    /\ handler' = [handler EXCEPT ![h] = Answered(handler[h].id, SubmitStatus(success))]
    /\ UNCHANGED agentVars
    /\ UNCHANGED <<oauthVars, storeVars>>

\* ------------------------------------------------- business store (UI)
\* The concurrent requests to POST /agent_callback and the business ids,
\* agent types and statuses they carry.
Requests == {1, 2}
Bids == {"b1"}
CALENDAR == "calendar"
AgentTypes == {"lead_finder", "sdr", "lead_manager", CALENDAR}
Statuses == {"contacted"}

\* update.data: the name found under name / sender_name / lead_name (None
\* when there is none, NonStr when it is not a string), and the city.
NonStr == "non-str"
NameInputs == {None, "Acme", NonStr}
CityInputs == {None, "Berlin"}

\* data.get("city") or ""
city_or_empty(city) == IF city = None THEN "" ELSE city

\* Business(...): pydantic rejects a name that is not a str.
Business_validates(name, city) == name # NonStr /\ city # NonStr

\* f"{update.agent_type}: {update.message}"; request r carries message r.
NoteOf(agent_type, r) == [agent |-> agent_type, message |-> r]

Business(id, name, city, status, now, note) ==
    [id |-> id, name |-> name, city |-> city, status |-> status,
     created_at |-> now, updated_at |-> now, notes |-> <<note>>]

\* The update of a known business: status, updated_at, one more note.
update_business_Overwrites(business, status, now, note) ==
    [business EXCEPT !.status = status, !.updated_at = now, !.notes = <<note>>]

update_business(business, status, now, note) ==
    [business EXCEPT !.status = status, !.updated_at = now,
                     !.notes = Append(business.notes, note)]

\* The payloads of the live stream sent for request r.
UpdateMsg(type, r) == [type |-> type, request_id |-> NoId, update |-> r]

\* A snapshot taken of the business as it was before the handler's update.
business_snapshot_Stale(before, after, bid) ==
    IF bid \in DOMAIN before THEN before[bid] ELSE after[bid]

\* final_business_obj = app_state["businesses"].get(update.business_id) and
\* its model_dump(), taken when the payload is built: after the handler's
\* update of the store and before its first await.
business_snapshot(before, after, bid) ==
    IF bid \in DOMAIN after THEN after[bid] ELSE None

\* The payload of message `type` of request r: business_updated carries
\* the update (its status) and the snapshot of the business.
Payload(type, r, status, before, after, bid) ==
    IF type = "business_updated"
    THEN [type |-> type, request_id |-> NoId, update |-> r, status |-> status,
          business |-> business_snapshot(before, after, bid)]
    ELSE UpdateMsg(type, r)

\* agent_callback, up to its first send_update: the HTTP status it is
\* heading for, the store it leaves and the messages it broadcasts.
agent_callback_status(store, agent_type, bid, name, city) ==
    IF agent_type = CALENDAR \/ bid \in DOMAIN store THEN 200
    ELSE IF name = None THEN 400
    ELSE IF ~Business_validates(name, city_or_empty(city)) THEN 400
    ELSE 200

agent_callback_creates(store, agent_type, bid, name, city) ==
    /\ agent_type # CALENDAR
    /\ bid \notin DOMAIN store
    /\ agent_callback_status(store, agent_type, bid, name, city) = 200

agent_callback_updates(store, agent_type, bid) == bid \in DOMAIN store

agent_callback_businesses_Drops(store, r, agent_type, bid, status, name, city, now) ==
    IF agent_callback_updates(store, agent_type, bid)
    THEN [b \in DOMAIN store \ {bid} |-> store[b]]
    ELSE IF agent_callback_creates(store, agent_type, bid, name, city)
    THEN [b \in DOMAIN store \cup {bid} |->
             IF b = bid
             THEN Business(bid, name, city_or_empty(city), status, now, NoteOf(agent_type, r))
             ELSE store[b]]
    ELSE store

agent_callback_businesses(store, r, agent_type, bid, status, name, city, now) ==
    IF agent_callback_updates(store, agent_type, bid)
    THEN [store EXCEPT ![bid] = update_business(store[bid], status, now, NoteOf(agent_type, r))]
    ELSE IF agent_callback_creates(store, agent_type, bid, name, city)
    THEN [b \in DOMAIN store \cup {bid} |->
             IF b = bid
             THEN Business(bid, name, city_or_empty(city), status, now, NoteOf(agent_type, r))
             ELSE store[b]]
    ELSE store

agent_callback_broadcasts_CalendarToo(store, agent_type, bid, name, city) ==
    IF agent_type = CALENDAR
    THEN <<"business_updated", "calendar_notification">>
    ELSE IF agent_callback_status(store, agent_type, bid, name, city) = 200
    THEN <<"business_updated">>
    ELSE <<>>

agent_callback_broadcasts(store, agent_type, bid, name, city) ==
    IF agent_type = CALENDAR
    THEN IF bid \in DOMAIN store
         THEN <<"business_updated", "calendar_notification">>
         ELSE <<"calendar_notification">>
    ELSE IF agent_callback_status(store, agent_type, bid, name, city) = 200
    THEN <<"business_updated">>
    ELSE <<>>

\* app_state["agent_updates"].append(update): the non-calendar branch only.
agent_callback_appends(store, agent_type, bid, name, city) ==
    /\ agent_type # CALENDAR
    /\ agent_callback_status(store, agent_type, bid, name, city) = 200

\* A request: idle, suspended in the send_text of a broadcast pass
\* ("sending"), or answered.  A pass keeps the set it iterates as it was when
\* the loop started, the connections the iterator has yielded, those whose
\* send raised, and the one it is sending to.
IdleRequest ==
    [pc |-> "idle", business_id |-> None, status |-> 0, error |-> None,
     msg |-> None, queue |-> <<>>, start |-> {}, visited |-> {}, failed |-> {},
     cur |-> {}]

RespondedRequest(bid, status, error) ==
    [IdleRequest EXCEPT !.pc = "done", !.business_id = bid, !.status = status,
                        !.error = error]

\* send_update called for each message of `queue` in turn, up to the first
\* await: with no connection every call returns at once and the handler
\* answers 200; otherwise the loop starts and the first send_text is awaited.
BeginBroadcast(bid, queue, conns, c) ==
    IF queue = <<>> \/ conns = {}
    THEN RespondedRequest(bid, 200, None)
    ELSE [IdleRequest EXCEPT !.pc = "sending", !.business_id = bid,
                             !.msg = Head(queue), !.queue = Tail(queue),
                             !.start = conns, !.visited = {c}, !.cur = {c}]

\* The connections the set iterator can yield next: those of the starting
\* set still ahead of it, and those added since (which may lie behind it).
IterOld(req, conns) == (req.start \cap conns) \ req.visited
IterNew(req, conns) == (conns \ req.start) \ req.visited

\* next() of the set iterator raises RuntimeError ("Set changed size during
\* iteration") when the size differs from the size at the start of the loop.
IterRaises(req, conns) == Cardinality(conns) # Cardinality(req.start)

\* datetime.now(): the wall clock, read; it is later at the next read unless
\* the clock was set back in between.
MaxClock == 3

\* POST /agent_callback, from the validated AgentUpdate to the first await
\* or to the response.
AgentCallback(r, agent_type, bid, status, name, city) ==
    /\ request[r].pc = "idle"
    /\ clock < MaxClock
    /\ LET st == agent_callback_status(businesses, agent_type, bid, name, city)
           queue == agent_callback_broadcasts(businesses, agent_type, bid, name, city)
       IN /\ businesses' = agent_callback_businesses(businesses, r, agent_type, bid,
                                                     status, name, city, clock)
          /\ agent_updates' =
                IF agent_callback_appends(businesses, agent_type, bid, name, city)
                THEN Append(agent_updates, r) ELSE agent_updates
          /\ clock' = IF businesses' # businesses THEN clock + 1 ELSE clock
          /\ IF st # 200
             THEN request' = [request EXCEPT ![r] = RespondedRequest(bid, st, None)]
             ELSE \E c \in Conns :
                     /\ active_connections # {} => c \in active_connections
                     /\ request' = [request EXCEPT ![r] =
                            BeginBroadcast(bid,
                                [i \in DOMAIN queue |->
                                    Payload(queue[i], r, status, businesses, businesses', bid)],
                                active_connections, c)]
    /\ UNCHANGED <<agentVars, uiVars, oauthVars, is_running, process>>

\* The awaited send_text returns (ok) or raises; then the loop goes on: the
\* iterator raises, or yields the next connection, or is exhausted, and
\* then the failed connections are disconnected and the handler goes on to
\* its next send_update or to its response.
SendText(r, ok) ==
    /\ request[r].pc = "sending"
    /\ LET req == request[r]
           c == CHOOSE x \in req.cur : TRUE
           failed == IF ok THEN req.failed ELSE req.failed \cup {c}
       IN /\ received' = [received EXCEPT ![c] = IF ok THEN Append(@, req.msg) ELSE @]
          /\ \/ /\ IterRaises(req, active_connections)
                /\ request' = [request EXCEPT ![r] =
                       RespondedRequest(req.business_id, 500, "RuntimeError")]
                /\ UNCHANGED active_connections
             \/ /\ ~IterRaises(req, active_connections)
                /\ \E n \in IterOld(req, active_connections) \cup IterNew(req, active_connections) :
                       request' = [request EXCEPT ![r].visited = @ \cup {n}, ![r].cur = {n},
                                                  ![r].failed = failed]
                /\ UNCHANGED active_connections
             \/ /\ ~IterRaises(req, active_connections)
                /\ IterOld(req, active_connections) = {}
                /\ active_connections' = active_connections \ failed
                /\ \E n \in Conns :
                       /\ active_connections' # {} => n \in active_connections'
                       /\ request' = [request EXCEPT ![r] =
                              BeginBroadcast(req.business_id, req.queue, active_connections', n)]
    /\ UNCHANGED <<agentVars, ui_requests, handler, oauthVars, businesses, agent_updates, clock,
                   is_running, process>>

\* Time passes.
ClockTick ==
    /\ clock < MaxClock
    /\ clock' = clock + 1
    /\ UNCHANGED <<agentVars, uiVars, oauthVars, businesses, agent_updates, request, is_running,
                   process>>

\* The wall clock is set back (clock synchronisation, end of daylight
\* saving time: datetime.now() is naive local time).
ClockSetBack ==
    /\ clock > 0
    /\ clock' = clock - 1
    /\ UNCHANGED <<agentVars, uiVars, oauthVars, businesses, agent_updates, request, is_running,
                   process>>

\* The run_lead_finding_process tasks that start_lead_finding can create.
Procs == {1, 2}

\* What call_lead_finder_agent comes back with: businesses, an empty list,
\* a result with success False, or an exception.
Outcomes == {"businesses", "empty", "error", "exception"}

\* An event of the live stream sent by task p.  The payload carries no
\* task; `process` records which call of send_update built it.
ProcMsg(type, p) == [type |-> type, request_id |-> NoId, process |-> p]

\* A task: not created, awaiting call_lead_finder_agent ("calling"), in one
\* of its send_update calls ("emitting") or ended; the events it has still
\* to send and those it has sent.
IdleProcess == [pc |-> "idle", queue |-> <<>>, emitted |-> <<>>]

\* run_lead_finding_process without its finally block.
run_lead_finding_events_NoFinally(outcome) ==
    CASE outcome = "businesses" -> <<"lead_finding_completed">>
      [] outcome = "empty"      -> <<"lead_finding_completed", "lead_finding_empty">>
      [] outcome = "error"      -> <<"lead_finding_failed">>
      [] outcome = "exception"  -> <<"lead_finding_failed">>

\* The events run_lead_finding_process sends after the call, in order: those
\* of the try block or of the except block, then process_finished from the
\* finally block.
run_lead_finding_events(outcome) ==
    (CASE outcome = "businesses" -> <<"lead_finding_completed">>
       [] outcome = "empty"      -> <<"lead_finding_completed", "lead_finding_empty">>
       [] outcome = "error"      -> <<"lead_finding_failed">>
       [] outcome = "exception"  -> <<"lead_finding_failed">>)
    \o <<"process_finished">>

\* POST /start_lead_finding with a valid city while no search is running:
\* the run flag is set, the store is emptied for the new search,
\* process_started is broadcast and run_lead_finding_process is started as
\* task p.  (While a search is running, or with an invalid city, the answer
\* is 400 and nothing changes.)
StartLeadFinding(p, ok) ==
    /\ ~is_running
    /\ process[p].pc = "idle"
    /\ is_running' = TRUE
    /\ businesses' = <<>>
    /\ agent_updates' = <<>>
    /\ SendUpdate(Msg("process_started", NoId), ok)
    /\ process' = [process EXCEPT ![p].pc = "calling"]
    /\ UNCHANGED <<agentVars, ui_requests, handler, oauthVars, clock, request>>

\* Task p goes on with the events of queue q, up to its next await.  With
\* no WebSocket client every send_update returns at once and the task runs
\* to its end; otherwise the first event is broadcast.  The finally block
\* clears the run flag right before it sends process_finished.
ProcessEmit(p, q, ok) ==
    IF active_connections = {}
    THEN /\ process' = [process EXCEPT ![p] =
                [pc |-> "finished", queue |-> <<>>, emitted |-> process[p].emitted \o q]]
         /\ is_running' = FALSE
         /\ UNCHANGED <<active_connections, received>>
    ELSE /\ SendUpdate(ProcMsg(Head(q), p), ok)
         /\ is_running' = IF Head(q) = "process_finished" THEN FALSE ELSE is_running
         /\ process' = [process EXCEPT ![p] =
                [pc |-> IF Tail(q) = <<>> THEN "finished" ELSE "emitting",
                 queue |-> Tail(q),
                 emitted |-> Append(process[p].emitted, Head(q))]]

\* call_lead_finder_agent returns or raises in task p.
LeadFinderReturns(p, outcome, ok) ==
    /\ process[p].pc = "calling"
    /\ ProcessEmit(p, run_lead_finding_events(outcome), ok)
    /\ UNCHANGED <<agentVars, ui_requests, handler, oauthVars,
                   businesses, agent_updates, clock, request>>

\* The send_update task p was awaiting has returned.
ProcessSend(p, ok) ==
    /\ process[p].pc = "emitting"
    /\ ProcessEmit(p, process[p].queue, ok)
    /\ UNCHANGED <<agentVars, ui_requests, handler, oauthVars,
                   businesses, agent_updates, clock, request>>

\* POST /reset: the run flag is cleared, the store is emptied and
\* state_reset is broadcast.
ResetState(ok) ==
    /\ is_running' = FALSE
    /\ businesses' = <<>>
    /\ agent_updates' = <<>>
    /\ SendUpdate(Msg("state_reset", NoId), ok)
    /\ UNCHANGED <<agentVars, ui_requests, handler, oauthVars, clock, request, process>>

\* ------------------------------------------------------ SDRAgentExecutor
\* The executions that reach an adk_request_credential call, and the
\* requests to the /authenticate route.
Attempts == {1, 2}
AuthCallbacks == {1, 2}

\* oauth2_config.state of the attempt's auth config, and a state value that
\* no attempt was given.
StateOf(a) == IF a = 1 THEN "state-1" ELSE "state-2"
UnknownState == "state-x"
States == {StateOf(a) : a \in Attempts} \cup {UnknownState}

\* str(request.url) of the callback request.
UriOf(k) == IF k = 1 THEN "uri-1" ELSE "uri-2"

\* asyncio.Future: created pending; set_result makes it done and raises
\* InvalidStateError unless it is pending; wait_for cancels it at the timeout.
PendingFuture == [state |-> "pending", result |-> None]

set_result_raises(future) == future.state # "pending"

set_result_DropsUri(future, uri) == [state |-> "done", result |-> None]

set_result(future, uri) == [state |-> "done", result |-> uri]

cancel_future(future) == [future EXCEPT !.state = "cancelled"]

\* context.call_context.user of an execution: authenticated under a user
\* name, or not authenticated; and the user id execute gives every session.
A2A_USER == "a2a_user"
Anonymous == "anonymous"
Users == {A2A_USER, "alice", Anonymous}

is_authenticated(user) == user # Anonymous

\* The credential keys (get_credential_key of the scheme and credential the
\* execution's tool asks for).
Kinds == {"cred-1", "cred-2"}

IdleAttempt ==
    [pc |-> "init", auth_response_uri |-> None, published |-> None,
     user |-> None, kind |-> None, session_state |-> {}]

IdleAuthCallback == [pc |-> "idle", state |-> None, outcome |-> None]

\* on_auth_callback(state, uri): what the call ends with.  It returns None
\* on both of its branches and builds no response; set_result on a future
\* that is no longer pending raises.
on_auth_callback_outcome(awaiting, state) ==
    IF state \in DOMAIN awaiting
    THEN IF set_result_raises(awaiting[state]) THEN "InvalidStateError" ELSE "delivered"
    ELSE "no_pending"

on_auth_callback_ResolvesAll(awaiting, state, uri) ==
    IF state \in DOMAIN awaiting /\ ~set_result_raises(awaiting[state])
    THEN [s \in DOMAIN awaiting |->
             IF set_result_raises(awaiting[s]) THEN awaiting[s] ELSE set_result(awaiting[s], uri)]
    ELSE awaiting

on_auth_callback(awaiting, state, uri) ==
    IF state \in DOMAIN awaiting /\ ~set_result_raises(awaiting[state])
    THEN [awaiting EXCEPT ![state] = set_result(awaiting[state], uri)]
    ELSE awaiting

\* _ensure_auth: the credential stored under the session's user id is put
\* into the session state unless its key is already there.
ensure_auth(creds, user_id, state) ==
    IF user_id \in DOMAIN creds THEN state \cup {creds[user_id]} ELSE state

\* execute, up to the start of the run: the session of the context is found
\* or created under the user id "a2a_user" and _ensure_auth preloads it.
EnsureAuth(a, user, kind) ==
    /\ attempt[a].pc = "init"
    /\ attempt' = [attempt EXCEPT ![a].pc = "running", ![a].user = user, ![a].kind = kind,
                                  ![a].session_state = ensure_auth(credentials, A2A_USER, {})]
    /\ UNCHANGED <<agentVars, uiVars, awaiting_auth, authcb, credentials, storeVars>>

\* The run ends without adk_request_credential: the tool found its
\* credential in the session state.
RunWithoutAuth(a) ==
    /\ attempt[a].pc = "running"
    /\ attempt[a].kind \in attempt[a].session_state
    /\ attempt' = [attempt EXCEPT ![a].pc = "completed", ![a].published = "completed"]
    /\ UNCHANGED <<agentVars, uiVars, awaiting_auth, authcb, credentials, storeVars>>

\* _store_user_auth: the session is looked up under the authenticated user's
\* name (it was created under "a2a_user"), and the credential found in its
\* state under the credential key is stored under that user id.
store_user_auth(creds, user, kind, state) ==
    IF user = A2A_USER /\ kind \in state
    THEN [u \in DOMAIN creds \cup {user} |-> IF u = user THEN kind ELSE creds[u]]
    ELSE creds

\* The resumed run ends (with the exchanged credential in the session state,
\* or without it); _store_user_auth is called for an authenticated user.
StoreUserAuth(a, exchanged) ==
    /\ attempt[a].pc = "resumed"
    /\ LET state == IF exchanged THEN attempt[a].session_state \cup {attempt[a].kind}
                    ELSE attempt[a].session_state
       IN /\ attempt' = [attempt EXCEPT ![a].pc = "finished", ![a].session_state = state]
          /\ credentials' =
                IF is_authenticated(attempt[a].user)
                THEN store_user_auth(credentials, attempt[a].user, attempt[a].kind, state)
                ELSE credentials
    /\ UNCHANGED <<agentVars, uiVars, awaiting_auth, authcb, storeVars>>

\* _prepare_auth_request: a new future is registered under the state token;
\* _process_adk_event then awaits the auth_required status update.
PrepareAuthRequest(a) ==
    /\ attempt[a].pc = "running"
    /\ attempt[a].kind \notin attempt[a].session_state
    /\ awaiting_auth' = [s \in DOMAIN awaiting_auth \cup {StateOf(a)} |->
                            IF s = StateOf(a) THEN PendingFuture ELSE awaiting_auth[s]]
    /\ attempt' = [attempt EXCEPT ![a].pc = "auth_requested"]
    /\ UNCHANGED <<agentVars, uiVars, authcb, credentials, storeVars>>

\* The auth_required status is out; execute leaves its loop and
\* _complete_auth_processing starts to wait for the future.
AwaitAuth(a) ==
    /\ attempt[a].pc = "auth_requested"
    /\ attempt' = [attempt EXCEPT ![a].pc = "awaiting", ![a].published = "auth_required"]
    /\ UNCHANGED <<agentVars, uiVars, awaiting_auth, authcb, credentials, storeVars>>

\* GET /authenticate?state=...: the route calls on_auth_callback.
AuthCallback(k, state) ==
    /\ authcb[k].pc = "idle"
    /\ awaiting_auth' = on_auth_callback(awaiting_auth, state, UriOf(k))
    /\ authcb' = [authcb EXCEPT ![k] =
           [pc |-> "done", state |-> state,
            outcome |-> on_auth_callback_outcome(awaiting_auth, state)]]
    /\ UNCHANGED <<agentVars, uiVars, attempt, credentials, storeVars>>

\* wait_for returns the future's result; the working status update is awaited.
AuthReceived(a) ==
    /\ attempt[a].pc = "awaiting"
    /\ awaiting_auth[StateOf(a)].state = "done"
    /\ attempt' = [attempt EXCEPT ![a].pc = "received",
                                  ![a].auth_response_uri = awaiting_auth[StateOf(a)].result]
    /\ UNCHANGED <<agentVars, uiVars, awaiting_auth, authcb, credentials, storeVars>>

\* The await is over: the entry is deleted and the runner is resumed with
\* the response URI.
AuthResume(a) ==
    /\ attempt[a].pc = "received"
    /\ awaiting_auth' = [s \in DOMAIN awaiting_auth \ {StateOf(a)} |-> awaiting_auth[s]]
    /\ attempt' = [attempt EXCEPT ![a].pc = "resumed", ![a].published = "working"]
    /\ UNCHANGED <<agentVars, uiVars, authcb, credentials, storeVars>>

\* asyncio.TimeoutError: wait_for has cancelled the future; update_status is
\* called without await and the method returns.
AuthTimeout(a) ==
    /\ attempt[a].pc = "awaiting"
    /\ awaiting_auth[StateOf(a)].state = "pending"
    /\ awaiting_auth' = [awaiting_auth EXCEPT ![StateOf(a)] = cancel_future(@)]
    /\ attempt' = [attempt EXCEPT ![a].pc = "timed_out"]
    /\ UNCHANGED <<agentVars, uiVars, authcb, credentials, storeVars>>

\* ------------------------------------------------------- specification
Init ==
    /\ registry = <<>>
    /\ pc = [t \in Tasks |-> "idle"]
    /\ rid = [t \in Tasks |-> NoId]
    /\ elapsed = [t \in Tasks |-> 0]
    /\ branch = [t \in Tasks |-> None]
    /\ result = [t \in Tasks |-> None]
    /\ ui_requests = <<>>
    /\ active_connections = {}
    /\ received = [c \in Conns |-> <<>>]
    /\ handler = [h \in Handlers |-> IdleHandler]
    /\ awaiting_auth = <<>>
    /\ attempt = [a \in Attempts |-> IdleAttempt]
    /\ authcb = [k \in AuthCallbacks |-> IdleAuthCallback]
    /\ credentials = <<>>
    /\ businesses = <<>>
    /\ agent_updates = <<>>
    /\ clock = 0
    /\ request = [r \in Requests |-> IdleRequest]
    /\ is_running = FALSE
    /\ process = [p \in Procs |-> IdleProcess]

Next ==
    \/ \E t \in Tasks, id \in Ids : HumanCreationStart(t, id)
    \/ \E t \in Tasks, ok \in SUBSET Conns : ReceiveHumanInputRequest(t, ok)
    \/ \E t \in Tasks : NotifyOk(t)
    \/ \E t \in Tasks : NotifyFail(t)
    \/ \E t \in Tasks, d \in 1..MaxLag : WakePoll(t, d)
    \/ \E t \in Tasks : CancelTask(t)
    \/ \E id \in Ids : CancelHumanRequest(id)
    \/ \E h \in Handlers, id \in Ids : \E url \in {UrlOf(h), EmptyUrl} : UiSubmitStart(h, id, url)
    \/ \E h \in Handlers : HumanInputCallback(h)
    \/ \E h \in Handlers, arrived \in BOOLEAN, ok \in SUBSET Conns : UiSubmitFinish(h, arrived, ok)

\* The two services with no dashboard connected.
Spec == Init /\ [][Next]_vars

\* One pipeline, the endpoint and the dashboard's WebSocket clients.
DashTasks == {1}

NextDashboard ==
    \/ \E t \in DashTasks, id \in Ids : HumanCreationStart(t, id)
    \/ \E t \in DashTasks, ok \in SUBSET Conns : ReceiveHumanInputRequest(t, ok)
    \/ \E t \in DashTasks : NotifyOk(t)
    \/ \E t \in DashTasks : NotifyFail(t)
    \/ \E t \in DashTasks, d \in 1..MaxLag : WakePoll(t, d)
    \/ \E t \in DashTasks : CancelTask(t)
    \/ \E id \in Ids : CancelHumanRequest(id)
    \/ \E h \in Handlers, id \in Ids : \E url \in {UrlOf(h), EmptyUrl} : UiSubmitStart(h, id, url)
    \/ \E h \in Handlers : HumanInputCallback(h)
    \/ \E h \in Handlers, arrived \in BOOLEAN, ok \in SUBSET Conns : UiSubmitFinish(h, arrived, ok)
    \/ \E c \in Conns : WsConnect(c)
    \/ \E c \in Conns : WsDisconnect(c)

SpecDashboard == Init /\ [][NextDashboard]_vars

\* The agent's OAuth attempts and its /authenticate route.
NextOAuth ==
    \/ \E a \in Attempts, user \in Users, kind \in Kinds : EnsureAuth(a, user, kind)
    \/ \E a \in Attempts : RunWithoutAuth(a)
    \/ \E a \in Attempts : PrepareAuthRequest(a)
    \/ \E a \in Attempts : AwaitAuth(a)
    \/ \E k \in AuthCallbacks, state \in States : AuthCallback(k, state)
    \/ \E a \in Attempts : AuthReceived(a)
    \/ \E a \in Attempts : AuthResume(a)
    \/ \E a \in Attempts : AuthTimeout(a)
    \/ \E a \in Attempts, exchanged \in BOOLEAN : StoreUserAuth(a, exchanged)

SpecOAuth == Init /\ [][NextOAuth]_vars

\* The same, with the event loop running every coroutine that is ready and
\* the wait_for timer firing.
SpecOAuthFair ==
    /\ Init /\ [][NextOAuth]_vars
    /\ \A a \in Attempts :
          /\ WF_vars(AuthReceived(a))
          /\ WF_vars(AuthResume(a))
          /\ WF_vars(AuthTimeout(a))

\* The dashboard's business store, its agent_callback endpoint and the
\* WebSocket clients.
NextStore ==
    \/ \E r \in Requests, agent_type \in AgentTypes, bid \in Bids, status \in Statuses :
           \E name \in NameInputs, city \in CityInputs :
               AgentCallback(r, agent_type, bid, status, name, city)
    \/ \E r \in Requests, ok \in BOOLEAN : SendText(r, ok)
    \/ \E c \in Conns : WsConnect(c)
    \/ \E c \in Conns : WsDisconnect(c)

SpecStore == Init /\ [][NextStore]_vars

\* Concurrent agent callbacks that set different statuses, with one
\* WebSocket client.
SnapStatuses == {"contacted", "engaged"}
SnapConns == {1}

NextSnapshot ==
    \/ \E r \in Requests, agent_type \in AgentTypes, bid \in Bids, status \in SnapStatuses :
           \E name \in NameInputs, city \in CityInputs :
               AgentCallback(r, agent_type, bid, status, name, city)
    \/ \E r \in Requests, ok \in BOOLEAN : SendText(r, ok)
    \/ \E c \in SnapConns : WsConnect(c)
    \/ \E c \in SnapConns : WsDisconnect(c)

SpecSnapshot == Init /\ [][NextSnapshot]_vars

\* The business store under a wall clock that time and the operator move;
\* no WebSocket client is connected.
NextClock ==
    \/ \E r \in Requests, agent_type \in AgentTypes, bid \in Bids, status \in Statuses :
           \E name \in NameInputs, city \in CityInputs :
               AgentCallback(r, agent_type, bid, status, name, city)
    \/ ClockTick
    \/ ClockSetBack

SpecClock == Init /\ [][NextClock]_vars

\* Both suspensions that wait for a human: the pipelines calling
\* human_creation with the UI's submit endpoint, and one execute that needs
\* OAuth consent with the /authenticate route.
NotifyHandlers == {1}
NotifyAttempts == {1}
NotifyCallbacks == {1}

NextNotify ==
    \/ \E t \in Tasks, id \in Ids : HumanCreationStart(t, id)
    \/ \E t \in Tasks : ReceiveHumanInputRequest(t, {})
    \/ \E t \in Tasks : NotifyOk(t)
    \/ \E t \in Tasks : NotifyFail(t)
    \/ \E t \in Tasks, d \in 1..MaxLag : WakePoll(t, d)
    \/ \E h \in NotifyHandlers, id \in Ids : UiSubmitStart(h, id, UrlOf(h))
    \/ \E h \in NotifyHandlers : HumanInputCallback(h)
    \/ \E h \in NotifyHandlers, arrived \in BOOLEAN : UiSubmitFinish(h, arrived, {})
    \/ \E a \in NotifyAttempts : EnsureAuth(a, A2A_USER, "cred-1")
    \/ \E a \in NotifyAttempts : PrepareAuthRequest(a)
    \/ \E a \in NotifyAttempts : AwaitAuth(a)
    \/ \E k \in NotifyCallbacks, state \in States : AuthCallback(k, state)
    \/ \E a \in NotifyAttempts : AuthReceived(a)
    \/ \E a \in NotifyAttempts : AuthResume(a)
    \/ \E a \in NotifyAttempts : AuthTimeout(a)

SpecNotify == Init /\ [][NextNotify]_vars

\* The business store with the endpoints that start a search and reset the
\* state; no WebSocket client is connected.
NextReset ==
    \/ \E r \in Requests, agent_type \in AgentTypes, bid \in Bids, status \in Statuses :
           \E name \in NameInputs, city \in CityInputs :
               AgentCallback(r, agent_type, bid, status, name, city)
    \/ \E p \in Procs : StartLeadFinding(p, {})
    \/ \E p \in Procs, outcome \in Outcomes : LeadFinderReturns(p, outcome, {})
    \/ ResetState({})

SpecReset == Init /\ [][NextReset]_vars

\* The lead-finding endpoints with the tasks they start and the dashboard's
\* WebSocket clients; a client is sent at most MaxReceived messages.
ProcConns == {1}
MaxReceived == 6

NextProcess ==
    \/ \E p \in Procs, ok \in SUBSET ProcConns : StartLeadFinding(p, ok)
    \/ \E p \in Procs, outcome \in Outcomes, ok \in SUBSET ProcConns :
           LeadFinderReturns(p, outcome, ok)
    \/ \E p \in Procs, ok \in SUBSET ProcConns : ProcessSend(p, ok)
    \/ \E ok \in SUBSET ProcConns :
           /\ \A c \in ProcConns : Len(received[c]) < MaxReceived
           /\ ResetState(ok)
    \/ \E c \in ProcConns : WsConnect(c)
    \/ \E c \in ProcConns : WsDisconnect(c)

SpecProcess == Init /\ [][NextProcess]_vars

\* The same, with the event loop running every task that is ready: the
\* awaited calls of a task return (the lead-finder call has a timeout).
SpecProcessFair ==
    /\ Init /\ [][NextProcess]_vars
    /\ \A p \in Procs :
          /\ WF_vars(\E outcome \in Outcomes, ok \in SUBSET ProcConns :
                        LeadFinderReturns(p, outcome, ok))
          /\ WF_vars(\E ok \in SUBSET ProcConns : ProcessSend(p, ok))

\* ============================================================== claims
\* What the registry holds under id: "absent", or the entry's status.
StatusOf(reg, id) == IF id \in DOMAIN reg THEN reg[id].status ELSE "absent"

\* Handler h's callback is served by the agent in this step.
Served(h) == handler[h].pc = "calling" /\ handler'[h].pc = "replied"

\* Handler h is answered in this step, after its callback was tried.
AnsweredNow(h) == handler[h].pc \in {"calling", "replied"} /\ handler'[h].pc = "done"

\* The agent accepted the callback of handler h (submit_human_response
\* returned True) and h has not answered yet.
Accepted(h) == handler[h].pc = "replied" /\ handler[h].agent = 200

\* Coroutine t creates its request in this step.
Creates(t) == pc[t] = "idle" /\ pc'[t] = "notify"

\* Coroutine t returns from human_creation in this step.
Returns(t) == pc[t] \in {"notify", "notified", "wait"} /\ pc'[t] = "done"

\* C1: at most one winner.  A submit_human_response(id, url) call returns
\* True exactly when id is PENDING at the call; it then commits its own url
\* under a COMPLETED status; every other call returns False and leaves the
\* registry, so the committed url, as it was.
C1_AtMostOneWinner ==
    [][\A h \in Handlers : (Served(h) /\ handler[h].url # EmptyUrl) =>
          LET id == handler[h].id
              won == handler'[h].agent = 200
          IN  /\ won <=> StatusOf(registry, id) = PENDING
              /\ won => /\ StatusOf(registry', id) = COMPLETED
                        /\ registry'[id].url_response = handler[h].url
                        /\ \A i \in Ids \ {id} : StatusOf(registry', i) = StatusOf(registry, i)
              /\ ~won => registry' = registry]_vars

\* Two calls for the same id were served: one won, the other lost, and the
\* registry holds the winner's url.
C1_Witness ==
    \E h1, h2 \in Handlers :
        /\ h1 # h2
        /\ handler[h1].id = handler[h2].id
        /\ Accepted(h1)
        /\ handler[h2].pc = "replied" /\ handler[h2].agent = 404
        /\ StatusOf(registry, handler[h1].id) = COMPLETED
        /\ registry[handler[h1].id].url_response = handler[h1].url

\* C2: a timeout is final.  Once a coroutine has timed out on its id and
\* human_creation has returned, a callback for that id is answered 404 and
\* leaves the registry unchanged.
C2_TimeoutIsFinal ==
    [][\A h \in Handlers, t \in Tasks :
          (/\ Served(h)
           /\ pc[t] = "done" /\ branch[t] = "timed_out"
           /\ handler[h].id = rid[t] /\ handler[h].url # EmptyUrl)
          => (handler'[h].agent = 404 /\ registry' = registry)]_vars

\* C3: no leak.  When human_creation has ended, by a return or by the
\* cancellation of its task, the entry it created is gone.
C3_NoLeak ==
    \A t \in Tasks :
        pc[t] \in {"done", "cancelled"} =>
            ~(rid[t] \in DOMAIN registry /\ registry[rid[t]].prompt = t)

\* C4: the UI endpoint answers 200 only for a callback the agent accepted,
\* and 404 for one the agent answered 404.
C4_UiStatusFollowsAgent ==
    [][\A h \in Handlers : AnsweredNow(h) =>
          /\ handler'[h].status = 200 => Accepted(h)
          /\ (handler[h].pc = "replied" /\ handler[h].agent = 404)
                 => handler'[h].status = 404]_vars

\* C5: a notifier failure is a hard failure.  The error return for a failed
\* notification is taken from the await of send_ui_notification, before any
\* pass of the wait loop, and leaves no entry under the request's id.
C5_NotifierFailureIsHard ==
    [][\A t \in Tasks : (result'[t] = ErrNotify /\ result[t] # ErrNotify) =>
          /\ pc[t] \in {"notify", "notified"}
          /\ pc'[t] = "done"
          /\ branch'[t] = None
          /\ rid[t] \notin DOMAIN registry']_vars

\* A notification failed and human_creation returned the error.
C5_Witness ==
    \E t \in Tasks : pc[t] = "done" /\ result[t] = ErrNotify /\ rid[t] \notin DOMAIN registry

\* C6: with no submission and no cancellation, the wait ends only by the
\* timeout, never before it has elapsed: a human_creation that returns the
\* no-response outcome for a request nobody cancelled took the timed-out
\* return of the wait.
C6_OnlyTimeoutEndsTheWait ==
    [][\A t \in Tasks :
          (Returns(t) /\ result'[t] = ErrNoResponse /\ branch'[t] # "cancelled")
              => branch'[t] = "timed_out"]_vars

\* C7: scenario A.  When the notification succeeded and human_creation
\* returns while a callback the agent accepted for its id is still being
\* answered, it returns that callback's url, and the id is then absent.
C7_ResolveDeliversUrl ==
    [][\A t \in Tasks, h \in Handlers :
          (Returns(t) /\ result'[t] # ErrNotify
           /\ Accepted(h) /\ handler[h].id = rid[t])
              => (result'[t] = handler[h].url /\ rid[t] \notin DOMAIN registry')]_vars

\* What connection c is sent in this step.
SentNow(c) == SubSeq(received'[c], Len(received[c]) + 1, Len(received'[c]))

\* C8: a submission that succeeded sends each observer at most the one
\* human_input_response_submitted message, and a submission that did not
\* succeed sends none.
C8_BroadcastOnlyOnSuccess ==
    [][\A h \in Handlers, c \in Conns :
          (handler[h].pc # "done" /\ handler'[h].pc = "done") =>
              IF Accepted(h)
              THEN SentNow(c) \in {<<>>, <<Msg("human_input_response_submitted", handler[h].id)>>}
              ELSE SentNow(c) = <<>>]_vars

\* C9: create_request returns a fresh id.  The id is no key of the registry
\* and no other invocation's id, and the new entry is PENDING.
C9_FreshId ==
    [][\A t \in Tasks : Creates(t) =>
          /\ rid'[t] \notin DOMAIN registry
          /\ \A u \in Tasks \ {t} : rid[u] # rid'[t]
          /\ StatusOf(registry', rid'[t]) = PENDING]_vars

C11_CancelIdempotent ==
    /\ \A id \in Ids :
          LET once == cancel_human_request(registry, id) IN
          /\ StatusOf(registry, id) = PENDING =>
                /\ cancel_human_request_returns(registry, id)
                /\ DOMAIN once = DOMAIN registry
                /\ once[id] = [registry[id] EXCEPT !.status = CANCELLED]
                /\ \A i \in (DOMAIN registry) \ {id} : once[i] = registry[i]
          /\ StatusOf(registry, id) # PENDING =>
                /\ ~cancel_human_request_returns(registry, id)
                /\ once = registry
          /\ cancel_human_request(once, id) = once
    /\ \A t \in Tasks :
          /\ (pc[t] \in {"notified", "wait"} /\ StatusOf(registry, rid[t]) = CANCELLED) =>
                \A e \in 0..(Timeout + 1) :
                    LET b == WaitBranch(registry, rid[t], e) IN
                    /\ b = "cancelled"
                    /\ HumanCreationReturns(WaitReturns(registry, rid[t], b)) = ErrNoResponse
          /\ branch[t] = "cancelled" => result[t] = ErrNoResponse

\* A waiter found its request cancelled and human_creation returned the
\* no-response outcome.
C11_Witness ==
    \E t \in Tasks : pc[t] = "done" /\ branch[t] = "cancelled" /\ result[t] = ErrNoResponse

\* The /authenticate request k is handled in this step.
AuthHandled(k) == authcb[k].pc = "idle" /\ authcb'[k].pc = "done"

\* The state value has no live waiter: it is unknown, or its future is
\* already resolved, or its wait has expired.
Unmatched(awaiting, state) ==
    state \notin DOMAIN awaiting \/ awaiting[state].state # "pending"

\* C12: a callback whose correlation id has no live waiter (unknown,
\* already resolved or expired) is answered with a client error and changes
\* no state: not the agent's registry, not _awaiting_auth, not the OAuth
\* attempts.
C12_UnmatchedCallbackRejected ==
    [][/\ \A k \in AuthCallbacks :
             (AuthHandled(k) /\ Unmatched(awaiting_auth, authcb'[k].state)) =>
                 /\ authcb'[k].outcome \in {"400", "404"}
                 /\ awaiting_auth' = awaiting_auth
                 /\ attempt' = attempt
                 /\ registry' = registry
       /\ \A h \in Handlers :
             (Served(h) /\ StatusOf(registry, handler[h].id) # PENDING) =>
                 /\ handler'[h].agent \in {400, 404}
                 /\ registry' = registry
                 /\ awaiting_auth' = awaiting_auth]_vars

\* How many of the broadcasts are of the given type.
CountType(queue, type) == Cardinality({i \in DOMAIN queue : queue[i] = type})

C14_RejectsIncomplete ==
    \A r \in Requests, agent_type \in AgentTypes, bid \in Bids, status \in Statuses :
        \A name \in {None, "Acme"}, city \in CityInputs :
            (bid \notin DOMAIN businesses /\ (name = None \/ city = None)) =>
                /\ agent_callback_status(businesses, agent_type, bid, name, city) \in {400, 422}
                /\ agent_callback_businesses(businesses, r, agent_type, bid, status,
                                             name, city, clock) = businesses
                /\ agent_callback_broadcasts(businesses, agent_type, bid, name, city) = <<>>

\* Request r is taken up by agent_callback in this step.
Handled(r) == request[r].pc = "idle" /\ request'[r].pc # "idle"

\* C15: notes are append-only.  No step removes a business or changes the
\* notes it already has; a step adds at most one note, and an accepted
\* update of a known business adds exactly one, the update's own, at the
\* end.
C15_NotesAppendOnly ==
    [][\A b \in DOMAIN businesses :
          /\ b \in DOMAIN businesses'
          /\ LET old == businesses[b].notes
                 new == businesses'[b].notes
             IN  /\ Len(new) \in {Len(old), Len(old) + 1}
                 /\ SubSeq(new, 1, Len(old)) = old
                 /\ \A r \in Requests :
                       (Handled(r) /\ request'[r].business_id = b) =>
                           /\ Len(new) = Len(old) + 1
                           /\ new[Len(new)].message = r]_vars

\* Two updates that overlap (the first is still broadcasting) have both
\* left their note, in the order they were accepted.
C15_Witness ==
    \E b \in DOMAIN businesses, r1, r2 \in Requests :
        /\ r1 # r2
        /\ request[r1].pc = "sending" /\ request[r2].pc = "sending"
        /\ Len(businesses[b].notes) = 2
        /\ businesses[b].notes[1].message = r1
        /\ businesses[b].notes[2].message = r2

\* C16: every update of a known business strictly advances its updated_at.
C16_UpdatedAtAdvances ==
    [][\A b \in DOMAIN businesses :
          businesses'[b] # businesses[b] =>
              businesses'[b].updated_at > businesses[b].updated_at]_vars

\* How many times the sequence holds the message.
CountOf(seq, msg) == Cardinality({i \in DOMAIN seq : seq[i] = msg})

\* The pass of request r over its current message ends in this step.
PassEnds(r) ==
    /\ request[r].pc = "sending"
    /\ request'[r].pc = "done" \/ request'[r].msg # request[r].msg

\* C17: best-effort fan-out.  When a pass ends, every connection that was
\* registered when it started has received the message exactly once, except
\* those whose send failed, and these are no longer registered.
C17_BestEffortFanOut ==
    [][\A r \in Requests : PassEnds(r) =>
          \A c \in request[r].start :
              \/ CountOf(received'[c], request[r].msg) = 1
              \/ /\ CountOf(received'[c], request[r].msg) = 0
                 /\ c \notin active_connections']_vars

\* C18: connections and disconnections during a pass never break it: no
\* pass ends in an error.
C18_PassNeverBreaks ==
    \A r \in Requests : request[r].error = None

\* C19: broadcast failures never reach the writer: an agent_callback that
\* has committed its update and gone on to broadcast answers 200 whatever
\* the observers do, and its answer leaves the store as committed.
C19_WriterUnaffected ==
    [][\A r \in Requests :
          (request[r].pc = "sending" /\ request'[r].pc = "done") =>
              /\ request'[r].status = 200
              /\ businesses' = businesses]_vars

\* C20: no OAuth entry leaks.  When an attempt has ended, resumed or timed
\* out, _awaiting_auth holds no entry under its state token.
C20_NoAwaitingAuthLeak ==
    \A a \in Attempts :
        attempt[a].pc \in {"resumed", "finished", "timed_out"} =>
            StateOf(a) \notin DOMAIN awaiting_auth

\* The state value was given to an attempt whose wait is over (it timed
\* out, or its future is resolved).
Settled(state) ==
    \E a \in Attempts :
        /\ StateOf(a) = state
        /\ \/ attempt[a].pc \in {"timed_out", "received", "resumed", "finished"}
           \/ state \in DOMAIN awaiting_auth /\ awaiting_auth[state].state = "done"

\* C21: a callback for a state token that has timed out or is already
\* resolved delivers nothing, raises no fault and leaves the waiters and the
\* attempts (so the earlier outcome, and the pipeline) as they were.
C21_LateAuthCallbackHarmless ==
    [][\A k \in AuthCallbacks :
          (AuthHandled(k) /\ Settled(authcb'[k].state)) =>
              /\ authcb'[k].outcome = "no_pending"
              /\ awaiting_auth' = awaiting_auth
              /\ attempt' = attempt]_vars

\* The steps of an attempt.
AttemptSteps ==
    {<<"init", "running">>, <<"running", "completed">>, <<"running", "auth_requested">>,
     <<"auth_requested", "awaiting">>, <<"awaiting", "received">>,
     <<"awaiting", "timed_out">>, <<"received", "resumed">>, <<"resumed", "finished">>}

C23_TimeoutPublished ==
    \A a \in Attempts : attempt[a].pc = "timed_out" => attempt[a].published = "failed"

\* Attempt a registers its waiter in this step.
Registers(a) == attempt[a].pc = "running" /\ attempt'[a].pc = "auth_requested"

C25_CheckBeforeSuspend ==
    [][\A a2 \in Attempts :
          (attempt[a2].pc = "init" /\ attempt'[a2].pc = "running") =>
              \A a1 \in Attempts \ {a2} :
                  (/\ attempt[a1].pc = "finished"
                   /\ attempt[a1].kind \in attempt[a1].session_state
                   /\ is_authenticated(attempt[a1].user)
                   /\ attempt[a1].user = attempt'[a2].user
                   /\ attempt[a1].kind = attempt'[a2].kind)
                  => attempt'[a2].kind \in attempt'[a2].session_state]_vars

\* C26: the first message a connection receives is the initial_state
\* snapshot, and the business_updated event of every update committed while
\* it is registered has reached it when the pass of that event ends, if it
\* is still registered.
C26_SnapshotThenEveryChange ==
    [][/\ \A c \in Conns :
             received'[c] # <<>> => received'[c][1].type = "initial_state"
       /\ \A r \in Requests :
             (PassEnds(r) /\ request[r].msg.type = "business_updated") =>
                 \A c \in request[r].start \cap active_connections' :
                     CountOf(received'[c], request[r].msg) >= 1]_vars

\* C27 as stated: no operation removes a Business from the store.
C27_NeverRemoved ==
    [][\A b \in DOMAIN businesses : b \in DOMAIN businesses']_vars

\* C27, amended: a Business persists until the store is reset.  No agent
\* update removes a Business; a step that removes one is a reset (POST
\* /reset, or an accepted POST /start_lead_finding) and empties the store
\* and the list of updates.
C27_RemovedOnlyByReset ==
    [][/\ (\E r \in Requests : Handled(r)) =>
             \A b \in DOMAIN businesses : b \in DOMAIN businesses'
       /\ (\E b \in DOMAIN businesses : b \notin DOMAIN businesses') =>
             /\ businesses' = <<>>
             /\ agent_updates' = <<>>
             /\ request' = request]_vars

\* A search was started (which emptied the store); the Business created
\* after that was updated by a second request and is still there.
C27_Witness ==
    /\ is_running
    /\ \E b \in DOMAIN businesses :
          /\ Len(businesses[b].notes) = 2
          /\ businesses[b].notes[1].message # businesses[b].notes[2].message

\* C30: observer set lifecycle.  When a pass ends, the connections whose
\* send failed in it are not registered any more; and a connection that is
\* not registered is sent nothing, except by a send that was already under
\* way when it left the set.
C30_ObserverLifecycle ==
    [][/\ \A r \in Requests : PassEnds(r) =>
             \A c \in Conns :
                 (\/ c \in request[r].failed
                  \/ c \in request[r].cur /\ received'[c] = received[c])
                 => c \notin active_connections'
       /\ \A c \in Conns :
             (/\ c \notin active_connections
              /\ c \notin active_connections'
              /\ \A r \in Requests : c \notin request[r].cur)
             => received'[c] = received[c]]_vars

\* C29: in every registry state a request's url_response is non-empty
\* exactly when its status is COMPLETED, and it is None for PENDING and
\* CANCELLED requests.
C29_ResultIffCompleted ==
    \A id \in DOMAIN registry :
        /\ registry[id].status = COMPLETED <=> Truthy(registry[id].url_response)
        /\ registry[id].status \in {PENDING, CANCELLED} =>
               registry[id].url_response = None

\* The registry holds a completed request and a cancelled one at once.
C29_Witness ==
    \E i, j \in DOMAIN registry :
        /\ registry[i].status = COMPLETED
        /\ registry[i].url_response = UrlOf(1)
        /\ registry[j].status = CANCELLED

\* Some pipeline has called create_request and got this id.
Created(id) == \E t \in Tasks : pc[t] # "idle" /\ rid[t] = id

\* C28: register before notify.  The step in which human_creation starts to
\* send its notification leaves the request stored and pending; the UI
\* knows, and submits, only ids that create_request has stored before; and
\* when the auth_required status is published, the future is stored under
\* the attempt's state token.
C28_RegisterBeforeNotify ==
    [][/\ \A t \in Tasks :
             (pc[t] = "idle" /\ pc'[t] = "notify") => IsPending(registry', rid'[t])
       /\ \A id \in DOMAIN ui_requests' : Created(id)
       /\ \A h \in Handlers :
             handler'[h].pc \in {"calling", "replied"} => Created(handler'[h].id)
       /\ \A a \in Attempts :
             (attempt[a].pc = "auth_requested" /\ attempt'[a].pc = "awaiting") =>
                 /\ StateOf(a) \in DOMAIN awaiting_auth
                 /\ attempt'[a].published = "auth_required"]_vars

\* A submission for a notified id has been accepted by the registry, and a
\* consent callback has resolved the future of a published auth request.
C28_Witness ==
    /\ \E h \in Handlers : handler[h].pc = "replied" /\ handler[h].agent = 200
    /\ \E a \in Attempts, k \in AuthCallbacks :
          /\ attempt[a].published = "auth_required"
          /\ authcb[k].pc = "done"
          /\ authcb[k].state = StateOf(a)
          /\ authcb[k].outcome = "delivered"

\* C31: no ghost entities.  Every stored Business has a non-empty name, a
\* non-empty city and an id equal to the key it is stored under.
C31_NoGhostEntities ==
    \A b \in DOMAIN businesses :
        /\ businesses[b].name \notin {None, ""}
        /\ businesses[b].city \notin {None, ""}
        /\ businesses[b].id = b

\* C32: a calendar update never creates a business.  For agent_type
\* calendar the handler leaves the key set of the store as it was and issues
\* business_updated exactly when the business_id is known, followed by
\* calendar_notification; and a handler that still has a message to
\* broadcast does not end with an error before broadcasting it.
C32_CalendarNeverCreates ==
    /\ [](\A r \in Requests, bid \in Bids, status \in Statuses :
             \A name \in NameInputs, city \in CityInputs :
                 LET after == agent_callback_businesses(businesses, r, CALENDAR, bid, status,
                                                        name, city, clock)
                     queue == agent_callback_broadcasts(businesses, CALENDAR, bid, name, city)
                 IN  /\ DOMAIN after = DOMAIN businesses
                     /\ queue # <<>>
                     /\ queue[Len(queue)] = "calendar_notification"
                     /\ (\E i \in DOMAIN queue : queue[i] = "business_updated")
                            <=> bid \in DOMAIN businesses)
    /\ [][\A r \in Requests :
             (/\ request[r].pc = "sending"
              /\ request[r].queue # <<>>
              /\ request'[r].pc = "done")
             => request'[r].status = 200]_vars

\* Some pipeline is in the wait loop of wait_for_human_response for id.
Waiting(id) == \E t \in Tasks : rid[t] = id /\ pc[t] = "wait"

\* C33: an accepted submission is never lost.  Once the request of an id
\* that is waited for is COMPLETED, it stays as it is until a waiter of the
\* id ends, and that waiter returns the submitted url, also when its
\* timeout has elapsed by then.
C33_AcceptedNeverLost ==
    [][\A id \in DOMAIN registry :
          (registry[id].status = COMPLETED /\ Waiting(id)) =>
              \/ id \in DOMAIN registry' /\ registry'[id] = registry[id]
              \/ \E t \in Tasks :
                    /\ rid[t] = id
                    /\ pc[t] = "wait"
                    /\ pc'[t] = "done"
                    /\ result'[t] = registry[id].url_response]_vars

\* The request stored under id, as a set: empty when there is none.
EntryOf(reg, id) == IF id \in DOMAIN reg THEN {reg[id]} ELSE {}

\* The ids whose request this step creates, changes or removes.
Touched == {id \in Ids : EntryOf(registry', id) # EntryOf(registry, id)}

\* C34: independence across ids.  A step touches the request of at most
\* one id, and a pipeline that moves in a step that touches an id (it
\* starts, is woken, or ends) is a pipeline of that id: the status and
\* result of every other id, and every other id's waiter, stay as they are.
C34_IndependentIds ==
    [][/\ Cardinality(Touched) <= 1
       /\ \A t \in Tasks :
             (pc'[t] # pc[t] \/ result'[t] # result[t] \/ branch'[t] # branch[t]) =>
                 \A id \in Touched : rid'[t] = id]_vars

\* Two requests with different ids were outstanding; one was answered and
\* its pipeline has returned the url, the other is still pending and waited
\* for.
C34_Witness ==
    \E t1, t2 \in Tasks :
        /\ rid[t1] # rid[t2]
        /\ pc[t1] = "done"
        /\ result[t1] = UrlOf(1)
        /\ pc[t2] = "wait"
        /\ IsPending(registry, rid[t2])

\* The agent-side request of id is still going on: a pipeline that created
\* it has not returned.
AgentSideLive(id) ==
    \E t \in Tasks : rid[t] = id /\ pc[t] \in {"notify", "notified", "wait"}

\* A submission for id is being served by the UI endpoint.
Submitting(id) ==
    \E h \in Handlers : handler[h].id = id /\ handler[h].pc \in {"calling", "replied"}

\* C35: the UI's map of pending requests mirrors the agent.  An entry is
\* removed only by a submission the agent accepted; and, unless a
\* submission for it is being served, an entry of the map belongs to a
\* request that has not ended on the agent's side.
C35_UiMapMirrorsAgent ==
    /\ [](\A id \in DOMAIN ui_requests : Submitting(id) \/ AgentSideLive(id))
    /\ [][\A id \in DOMAIN ui_requests :
             id \notin DOMAIN ui_requests' =>
                 \E h \in Handlers :
                     /\ handler[h].id = id
                     /\ handler[h].pc = "replied"
                     /\ handler[h].agent = 200]_vars

\* Task p has been started and has not ended.
InFlight(p) == process[p].pc \in {"calling", "emitting"}

\* C36: at most one lead-finding process is in flight at any time, and
\* is_running is True as long as one is.
C36_OneProcessInFlight ==
    /\ Cardinality({p \in Procs : InFlight(p)}) <= 1
    /\ (\E p \in Procs : InFlight(p)) => is_running

\* The last element of a sequence that is not empty.
Last(seq) == seq[Len(seq)]

\* The events of task p.
EventsOf(p) ==
    {ProcMsg(type, p) : type \in {"lead_finding_completed", "lead_finding_empty",
                                  "lead_finding_failed", "process_finished"}}

\* C37: every lead-finding process that was started eventually ends; the
\* step in which it sends process_finished leaves is_running False; when
\* it has ended, process_finished is the last event it sent, sent once;
\* and no client receives an event of the process after its
\* process_finished.
C37_ProcessFinishes ==
    /\ \A p \in Procs : (process[p].pc = "calling") ~> (process[p].pc = "finished")
    /\ [][\A p \in Procs :
             Len(process'[p].emitted) > Len(process[p].emitted) =>
                 (Last(process'[p].emitted) = "process_finished" <=>
                      (process'[p].pc = "finished" /\ ~is_running'))]_vars
    /\ [](\A p \in Procs :
             /\ process[p].pc = "finished" =>
                   /\ Last(process[p].emitted) = "process_finished"
                   /\ CountType(process[p].emitted, "process_finished") = 1
             /\ \A c \in Conns : \A i, j \in DOMAIN received[c] :
                   (i < j /\ received[c][i] = ProcMsg("process_finished", p))
                       => received[c][j] \notin EventsOf(p))

\* Both tasks have ended, one after an empty result and one after an
\* exception, and a client has received the events of a task up to its
\* process_finished.
C37_Witness ==
    /\ \E p, q \in Procs :
          /\ process[p].pc = "finished"
          /\ process[p].emitted =
                <<"lead_finding_completed", "lead_finding_empty", "process_finished">>
          /\ process[q].pc = "finished"
          /\ process[q].emitted = <<"lead_finding_failed", "process_finished">>
          /\ \E c \in Conns :
                /\ Len(received[c]) >= 3
                /\ Last(received[c]) = ProcMsg("process_finished", q)
                /\ received[c][Len(received[c]) - 1] = ProcMsg("lead_finding_failed", q)
    /\ ~is_running

\* The business_updated events: those received by a client and those a
\* handler is sending or has still to send.
BusinessUpdatedEvents ==
    LET Of(seq) == {seq[i] : i \in {j \in DOMAIN seq : seq[j].type = "business_updated"}}
    IN  UNION {Of(received[c]) : c \in Conns}
        \cup UNION {Of(request[r].queue) : r \in Requests}
        \cup {request[r].msg : r \in {q \in Requests : request[q].pc = "sending"
                                                        /\ request[q].msg.type = "business_updated"}}

\* C38: snapshot consistency.  In every business_updated event the status
\* of the business snapshot is the status of the update that triggered the
\* event, and the snapshot's last note is the note of that update.
C38_SnapshotReflectsUpdate ==
    \A e \in BusinessUpdatedEvents :
        /\ e.business.status = e.status
        /\ Last(e.business.notes).message = e.update

\* Two requests for the same business that set different statuses ran
\* concurrently: the second handler changed the business while the first
\* was suspended in its send, and the client received the second event
\* before the first.
C38_Witness ==
    \E c \in Conns : \E i, j \in DOMAIN received[c] :
        /\ i < j
        /\ received[c][i].type = "business_updated"
        /\ received[c][j].type = "business_updated"
        /\ received[c][i].update # received[c][j].update
        /\ received[c][i].status # received[c][j].status
        /\ received[c][i].business.id = received[c][j].business.id
        /\ Len(received[c][i].business.notes) > Len(received[c][j].business.notes)
=============================================================================
